---- MODULE Spec2Model ----
(***************************************************************************)
(* Mine & Gem Game (src/main.py): start-up from the stats and leaderboard  *)
(* files, the setup menu with its promocode claim, the game loop, the end  *)
(* screen with its stats/leaderboard fold, and the leaderboard view.       *)
(*                                                                         *)
(* Money is counted in paise (1/100 rupee), so 1000.0 is 100000; the       *)
(* multiplier is counted in tenths, so 1.0 is 10 and "+= 0.1" is "+ 1".    *)
(* Python floats are modelled as these exact decimals.  Drawing, sound and *)
(* the sound switch are left out; the text of the menu's fields is an      *)
(* input of the RETURN and P handlers, and so is the clock.  TypingSpec    *)
(* alone keeps the text of the Promocode field as state, filled key by     *)
(* key.                                                                    *)
(*                                                                         *)
(* One action is one handled event.  GameFrameEnd is the end of an event   *)
(* batch, where game_loop runs its win check; any number of events can be  *)
(* handled before it, as pygame.event.get() can return any batch.          *)
(*                                                                         *)
(* Spec starts from the default profile and explores every mine placement  *)
(* and every click order on the boards with at most MaxSafe safe cells;    *)
(* SweepSpec follows one run per config on boards of every size; MenuSpec  *)
(* follows the menu alone, for every config; EngineSpec calls game_loop    *)
(* with unchecked arguments; LaunchSpec starts the program from its files, *)
(* and again after it quit; StakesSpec bets the whole balance; TypingSpec  *)
(* follows the keys pressed on the Promocode field.                        *)
(***************************************************************************)
EXTENDS Integers, Sequences, FiniteSets, TLC

\* ------------------------------------------------------------ bounds
\* A session is explored only while fewer than MaxGames games are on record.
MaxGames == 2
\* A session is explored only when its board has at most MaxSafe safe cells.
MaxSafe == 2

\* ------------------------------------------------------------ constants
GRID_SIZE == 800
WINDOW_WIDTH == 1000
WINDOW_HEIGHT == 800
GRID_OPTIONS == <<4, 5, 6, 7, 8>>
LeaderboardMaxLen == 5
DefaultBalance == 100000
PromoBonus == 50000

\* difficulties = {"Easy": 0.5, "Medium": 1.0, "Hard": 1.5}, in tenths,
\* in the dictionary's order
diff_list == <<"Easy", "Medium", "Hard">>
difficulties == [Easy |-> 5, Medium |-> 10, Hard |-> 15]

\* field_order = ["Grid Size", "Number of Mines", "Bet Amount", "Promocode"]
field_order == <<"Grid Size", "Number of Mines", "Bet Amount", "Promocode">>

VARIABLES
    pc,               \* which loop runs: "menu", "start", "game", "end",
                      \* "leaderboard", "quit"; "off" before the program
                      \* is started, "crashed" after an uncaught exception
    \* --- the profile (fields of MineGemGame)
    balance, high_score, total_games, total_wins, total_losses,
    total_earnings, promocode_used, leaderboard, difficulty,
    grid_size_index,
    stats,            \* self.stats, the record dumped to STATS_FILE
    stats_file,       \* STATS_FILE on disk
    leaderboard_file, \* the lines of LEADERBOARD_FILE
    \* --- show_start_menu's locals
    current_index, error_message, success_message,
    input_fields,     \* the text of the Promocode field (the two number
                      \* fields' texts are inputs of the RETURN handler)
    \* --- game_loop's arguments and locals
    grid_size, num_mines, bet_amount, mine_positions, revealed, game_over,
    earnings, multiplier, max_earnings,
    \* --- end_screen's arguments
    result, final_balance,
    \* --- _show_leaderboard's rendered rows
    shown_scores,
    \* --- history, read by the properties only
    last_event,       \* what the last handled event was aimed at
    balance_before,   \* the balance held when the session's config was accepted
    games_before,     \* total_games when the session started
    inserts           \* leaderboard insertions since the session started

profile == <<balance, high_score, total_games, total_wins, total_losses,
             total_earnings, promocode_used, leaderboard, difficulty,
             grid_size_index, stats, stats_file, leaderboard_file>>
menu_locals == <<current_index, error_message, success_message,
                 input_fields>>
game_locals == <<grid_size, num_mines, bet_amount, mine_positions, revealed,
                 game_over, earnings, multiplier, max_earnings>>
end_args == <<result, final_balance>>
history == <<last_event, balance_before, games_before, inserts>>

vars == <<pc, profile, menu_locals, game_locals, end_args, shown_scores, history>>

\* ------------------------------------------------------------ helpers
Min(a, b) == IF a <= b THEN a ELSE b
Max(a, b) == IF a >= b THEN a ELSE b

RECURSIVE InsertDesc(_, _)
InsertDesc(s, x) ==
    IF s = <<>> THEN <<x>>
    ELSE IF x > Head(s) THEN <<x>> \o s
    ELSE <<Head(s)>> \o InsertDesc(Tail(s), x)

\* sorted(seq, reverse=True)
RECURSIVE sorted_desc(_)
sorted_desc(s) ==
    IF s = <<>> THEN <<>> ELSE InsertDesc(sorted_desc(Tail(s)), Head(s))

\* mutant of deque_append: a full deque drops its smallest value
deque_append_evict_smallest(dq, x) ==
    IF Len(dq) >= 5
    THEN LET i == CHOOSE j \in 1 .. Len(dq) : \A k \in 1 .. Len(dq) : dq[j] <= dq[k]
         IN  Append(SubSeq(dq, 1, i - 1) \o SubSeq(dq, i + 1, Len(dq)), x)
    ELSE Append(dq, x)

\* deque(maxlen=5).append(x): the leftmost entry is dropped when full
deque_append(dq, x) ==
    IF Len(dq) >= LeaderboardMaxLen THEN Append(Tail(dq), x) ELSE Append(dq, x)

\* _load_leaderboard: every parsable line is appended to a deque(maxlen=5)
RECURSIVE load_leaderboard_from(_, _)
load_leaderboard_from(dq, lines) ==
    IF lines = <<>> THEN dq
    ELSE load_leaderboard_from(deque_append(dq, Head(lines)), Tail(lines))

_load_leaderboard(lines) == load_leaderboard_from(<<>>, lines)

\* _load_stats with no readable STATS_FILE
default_stats ==
    [balance |-> DefaultBalance, high_score |-> 0, total_games |-> 0,
     total_wins |-> 0, total_losses |-> 0, total_earnings |-> 0,
     promocode_used |-> FALSE]

\* the record _save_stats builds from the (new) field values
stats_record(b, h, g, w, l, e, p) ==
    [balance |-> b, high_score |-> h, total_games |-> g, total_wins |-> w,
     total_losses |-> l, total_earnings |-> e, promocode_used |-> p]

no_event == [kind |-> "none", target |-> "none"]

\* line 140: input_fields as show_start_menu creates it
empty_input_fields == [Promocode |-> <<>>]

\* ------------------------------------------------------------ STATS_FILE
\* What is on disk under STATS_FILE: kind tells whether the file exists, can
\* be opened, decodes as text and parses as JSON, and which JSON value it
\* holds; for a JSON object, keys are the keys it has and data their values.
StatsKeys ==
    {"balance", "high_score", "total_games", "total_wins", "total_losses",
     "total_earnings", "promocode_used"}

no_stats_file == [kind |-> "missing", keys |-> {}, data |-> default_stats]

\* json.dump(self.stats, f, indent=4)
json_dump(record) == [kind |-> "json_object", keys |-> StatsKeys, data |-> record]

\* _load_stats (lines 75-93): os.path.exists, open and json.load, with
\* JSONDecodeError, IOError and OSError caught; json.load returns whatever
\* JSON value the file holds, and raises UnicodeDecodeError on bytes that
\* are not text
_load_stats(file) ==
    CASE file.kind = "json_object" ->
           [raised |-> "", is_dict |-> TRUE, keys |-> file.keys, data |-> file.data]
      [] file.kind = "json_array" ->
           [raised |-> "", is_dict |-> FALSE, keys |-> {}, data |-> default_stats]
      [] file.kind = "invalid_utf8" ->
           [raised |-> "UnicodeDecodeError", is_dict |-> FALSE, keys |-> {},
            data |-> default_stats]
      [] file.kind \in {"missing", "unreadable", "invalid_json"} ->
           [raised |-> "", is_dict |-> TRUE, keys |-> StatsKeys,
            data |-> default_stats]

\* self.stats.get(key, default)
stats_get(loaded, key, default) ==
    IF key \in loaded.keys THEN loaded.data[key] ELSE default

\* ------------------------------------------------------------ field parsing
\* A text field is a sequence of one-character strings.
Digits == {"0", "1", "2", "3", "4", "5", "6", "7", "8", "9"}

DigitVal(c) ==
    CASE c = "0" -> 0 [] c = "1" -> 1 [] c = "2" -> 2 [] c = "3" -> 3
      [] c = "4" -> 4 [] c = "5" -> 5 [] c = "6" -> 6 [] c = "7" -> 7
      [] c = "8" -> 8 [] c = "9" -> 9

RECURSIVE DigitsValue(_)
DigitsValue(s) ==
    IF s = <<>> THEN 0
    ELSE DigitsValue(SubSeq(s, 1, Len(s) - 1)) * 10 + DigitVal(s[Len(s)])

ValueError == [ok |-> FALSE, val |-> 0]
Parsed(v) == [ok |-> TRUE, val |-> v]

\* int(text): a non-empty run of digits, else ValueError
int_of(s) ==
    IF s # <<>> /\ \A i \in 1..Len(s) : s[i] \in Digits
    THEN Parsed(DigitsValue(s))
    ELSE ValueError

\* float(text), in paise: digits with at most one ".", and at least one digit;
\* the fields used here carry at most two decimals
float_of(s) ==
    LET dots == {i \in 1..Len(s) : s[i] = "."}
        ok == /\ \A i \in 1..Len(s) : s[i] \in Digits \cup {"."}
              /\ Cardinality(dots) <= 1
              /\ \E i \in 1..Len(s) : s[i] \in Digits
        dot == IF dots = {} THEN Len(s) + 1 ELSE CHOOSE i \in dots : TRUE
        whole == SubSeq(s, 1, dot - 1)
        frac == SubSeq(s, dot + 1, Len(s))
        frac2 == SubSeq(frac \o <<"0", "0">>, 1, 2)
    IN  IF ok THEN Parsed(DigitsValue(whole) * 100 + DigitsValue(frac2))
        ELSE ValueError

\* ------------------------------------------------------------ promocode text
DigitChar(d) ==
    CASE d = 0 -> "0" [] d = 1 -> "1" [] d = 2 -> "2" [] d = 3 -> "3"
      [] d = 4 -> "4" [] d = 5 -> "5" [] d = 6 -> "6" [] d = 7 -> "7"
      [] d = 8 -> "8" [] d = 9 -> "9"

\* a number below 100 as two digits ("%I", "%M")
TwoDigits(n) == <<DigitChar(n \div 10), DigitChar(n % 10)>>

\* datetime.strftime("%I:%M %p") of a time <<hour, minute>> of the 24-hour
\* clock
strftime_IMp(now) ==
    LET hour == IF now[1] % 12 = 0 THEN 12 ELSE now[1] % 12
    IN  TwoDigits(hour) \o <<":">> \o TwoDigits(now[2]) \o <<" ">>
          \o (IF now[1] < 12 THEN <<"A", "M">> ELSE <<"P", "M">>)

\* str.lstrip(c) and str.rstrip(c)
RECURSIVE lstrip(_, _)
lstrip(s, c) == IF s # <<>> /\ Head(s) = c THEN lstrip(Tail(s), c) ELSE s

RECURSIVE rstrip(_, _)
rstrip(s, c) ==
    IF s # <<>> /\ s[Len(s)] = c THEN rstrip(SubSeq(s, 1, Len(s) - 1), c) ELSE s

\* str.strip(): the field holds no other whitespace than " "
strip(s) == rstrip(lstrip(s, " "), " ")

\* str.upper(): the letters the field can hold are a, p, m
UpperChar(c) ==
    CASE c = "a" -> "A" [] c = "p" -> "P" [] c = "m" -> "M" [] OTHER -> c

upper(s) == [i \in 1 .. Len(s) |-> UpperChar(s[i])]

\* line 198: current_time
current_time(now) == lstrip(strftime_IMp(now), "0")

\* line 199: entered_time
entered_time(text) == upper(strip(text))

\* the clock readings and the contents of the Promocode field when P is
\* pressed
PromoTimes == { <<9, 5>>, <<15, 45>> }
PromoFields ==
    { <<>>, <<"9", ":", "0", "5", " ", "A", "M">>,
      <<" ", "9", ":", "0", "5", " ", "a", "m">>,
      <<"3", ":", "4", "5", " ", "A", "M">> }

\* the contents the two number fields are given when RETURN is pressed: what
\* the typing branch lets into them, digits and the characters, such as "²",
\* that str.isdigit() accepts and int() and float() refuse
MineFields ==
    { <<>>, <<"0">>, <<"1", "3">>, <<"1", "4">>, <<"1", "5">>, <<"1", "6">>,
      <<"3", "5">> }
BetFields ==
    { <<>>, <<"0">>, <<"1", "0">>, <<"2", "0", "0", "0">>, <<"1", "²">> }

\* ------------------------------------------------------------ the board
AllCells(g) == (0 .. g - 1) \X (0 .. g - 1)

RECURSIVE KSubsets(_, _)
KSubsets(S, k) ==
    IF k = 0 THEN {{}}
    ELSE UNION { { T \cup {x} : T \in KSubsets(S \ {x}, k - 1) } : x \in S }

\* the sets random.sample(all_positions, num_mines) can return: any num_mines
\* distinct cells
MinePlacements(g, m) ==
    LET safe == g * g - m
    IN  IF m <= safe THEN KSubsets(AllCells(g), m)
        ELSE { AllCells(g) \ T : T \in KSubsets(AllCells(g), safe) }


\* ------------------------------------------------------------ initial state
\* The leaderboard file a previous run left: none, or five lines written
\* sorted descending.
InitLeaderboardFiles ==
    { <<>>, <<100300, 100200, 100100, 100000, 99900>> }

Init ==
    /\ pc = "menu"
    /\ stats = default_stats
    /\ balance = stats.balance
    /\ high_score = stats.high_score
    /\ total_games = stats.total_games
    /\ total_wins = stats.total_wins
    /\ total_losses = stats.total_losses
    /\ total_earnings = stats.total_earnings
    /\ promocode_used = stats.promocode_used
    /\ stats_file = no_stats_file
    /\ leaderboard_file \in InitLeaderboardFiles
    /\ leaderboard = _load_leaderboard(leaderboard_file)
    /\ difficulty = "Medium"
    /\ grid_size_index = 1
    /\ current_index = 0
    /\ error_message = ""
    /\ success_message = ""
    /\ input_fields = empty_input_fields
    /\ grid_size = 0
    /\ num_mines = 0
    /\ bet_amount = 0
    /\ mine_positions = {}
    /\ revealed = {}
    /\ game_over = FALSE
    /\ earnings = 0
    /\ multiplier = 10
    /\ max_earnings = 0
    /\ result = "none"
    /\ final_balance = 0
    /\ shown_scores = <<>>
    /\ last_event = no_event
    /\ balance_before = 0
    /\ games_before = 0
    /\ inserts = 0

\* ------------------------------------------------------------ show_start_menu
selected == field_order[current_index + 1]

next_index == (current_index + 1) % Len(field_order)

IndexOf(seq, x) == CHOOSE i \in 1..Len(seq) : seq[i] = x

\* K_TAB
MenuKeyTab ==
    /\ pc = "menu"
    /\ current_index' = next_index
    /\ error_message' = ""
    /\ success_message' = ""
    /\ UNCHANGED <<pc, profile, input_fields, game_locals, end_args,
                   shown_scores, history>>

\* K_g while "Grid Size" is selected
MenuKeyG ==
    /\ pc = "menu"
    /\ selected = "Grid Size"
    /\ grid_size_index' = (grid_size_index + 1) % Len(GRID_OPTIONS)
    /\ error_message' = ""
    /\ success_message' = ""
    /\ UNCHANGED <<pc, balance, high_score, total_games, total_wins,
                   total_losses, total_earnings, promocode_used, leaderboard,
                   difficulty, stats, stats_file, leaderboard_file,
                   current_index, input_fields, game_locals, end_args,
                   shown_scores, history>>

\* K_d
MenuKeyD ==
    /\ pc = "menu"
    /\ difficulty' = diff_list[(IndexOf(diff_list, difficulty) % Len(diff_list)) + 1]
    /\ error_message' = ""
    /\ success_message' = ""
    /\ UNCHANGED <<pc, balance, high_score, total_games, total_wins,
                   total_losses, total_earnings, promocode_used, leaderboard,
                   grid_size_index, stats, stats_file, leaderboard_file,
                   current_index, input_fields, game_locals, end_args,
                   shown_scores, history>>

\* mutant of promo_unused: the flag is not looked at
promo_unused_always == TRUE

\* line 197: not self.promocode_used
promo_unused == ~promocode_used

\* K_p while "Promocode" is selected, the field holding promo_field and the
\* clock reading now (lines 196-211)
MenuKeyP(promo_field, now) ==
    /\ pc = "menu"
    /\ selected = "Promocode"
    /\ IF promo_unused
       THEN IF entered_time(promo_field) = current_time(now)
            THEN /\ balance' = balance + PromoBonus
                 /\ promocode_used' = TRUE
                 /\ success_message' = "Promocode claimed!"
                 /\ error_message' = ""
                 /\ stats' = stats_record(balance', high_score, total_games,
                                          total_wins, total_losses,
                                          total_earnings, promocode_used')
                 /\ stats_file' = json_dump(stats')
            ELSE /\ error_message' = "Invalid promocode!"
                 /\ success_message' = ""
                 /\ UNCHANGED <<balance, promocode_used, stats, stats_file>>
       ELSE /\ error_message' = "Promocode already used!"
            /\ success_message' = ""
            /\ UNCHANGED <<balance, promocode_used, stats, stats_file>>
    /\ UNCHANGED <<pc, high_score, total_games, total_wins, total_losses,
                   total_earnings, leaderboard, difficulty, grid_size_index,
                   leaderboard_file, current_index, input_fields,
                   game_locals, end_args, shown_scores, history>>

\* mutant of bet_exceeds_balance: the bet is not compared with the balance
bet_exceeds_balance_never(bet) == FALSE

\* mutant of bet_exceeds_balance: the bet is compared with the balance the
\* profile starts with, not with the current one
bet_exceeds_balance_at_first(bet) == bet > DefaultBalance

\* line 221
bet_exceeds_balance(bet) == bet > balance

\* mutant of too_many_mines: a board of mines only is let through
too_many_mines_off_by_one(mines, grid) == mines > grid * grid

\* line 224
too_many_mines(mines, grid) == mines >= grid * grid

\* mines = int(int(text) * difficulties[difficulty])
scaled_mines(n, diff) == (n * difficulties[diff]) \div 10

\* K_RETURN with the two number fields holding mines_field and bet_field; an
\* accepted config ends show_start_menu, whose locals are then gone
MenuKeyReturn(mines_field, bet_field) ==
    /\ pc = "menu"
    /\ IF selected \in {"Promocode", "Grid Size"}
       THEN /\ current_index' = next_index
            /\ UNCHANGED <<pc, error_message, success_message, input_fields,
                           grid_size, num_mines, bet_amount, balance_before>>
       ELSE IF mines_field # <<>> /\ bet_field # <<>>
       THEN LET grid == GRID_OPTIONS[grid_size_index + 1]
                n == int_of(mines_field)
                b == float_of(bet_field)
                mines == scaled_mines(n.val, difficulty)
                bet == b.val
            IN  IF ~n.ok \/ ~b.ok
                THEN /\ error_message' = "Invalid input! Use numbers only."
                     /\ UNCHANGED <<pc, current_index, success_message,
                                    input_fields, grid_size, num_mines,
                                    bet_amount, balance_before>>
                ELSE IF bet_exceeds_balance(bet)
                THEN /\ error_message' = "Bet exceeds balance!"
                     /\ UNCHANGED <<pc, current_index, success_message,
                                    input_fields, grid_size, num_mines,
                                    bet_amount, balance_before>>
                ELSE IF too_many_mines(mines, grid)
                THEN /\ error_message' = "Too many mines for grid size!"
                     /\ UNCHANGED <<pc, current_index, success_message,
                                    input_fields, grid_size, num_mines,
                                    bet_amount, balance_before>>
                ELSE IF bet <= 0 \/ mines <= 0
                THEN /\ error_message' = "Bet and mines must be positive!"
                     /\ UNCHANGED <<pc, current_index, success_message,
                                    input_fields, grid_size, num_mines,
                                    bet_amount, balance_before>>
                ELSE /\ pc' = "start"
                     /\ grid_size' = grid
                     /\ num_mines' = mines
                     /\ bet_amount' = bet
                     /\ balance_before' = balance
                     /\ current_index' = 0
                     /\ error_message' = ""
                     /\ success_message' = ""
                     /\ input_fields' = empty_input_fields
       ELSE /\ current_index' = next_index
            /\ error_message' = ""
            /\ success_message' = ""
            /\ UNCHANGED <<pc, input_fields, grid_size, num_mines, bet_amount,
                           balance_before>>
    /\ UNCHANGED <<profile, mine_positions, revealed, game_over, earnings,
                   multiplier, max_earnings, end_args, shown_scores,
                   last_event, games_before, inserts>>

\* ------------------------------------------------------------ end_screen
\* _save_leaderboard: the scores, sorted descending, one per line
_save_leaderboard(lb) == sorted_desc(lb)

fold_high_score(fb) == Max(high_score, fb)

fold_leaderboard(fb) == deque_append(leaderboard, fb)

\* mutant of fold_total_wins: the win is counted whatever the result
fold_total_wins_always(res) == total_wins + 1

fold_total_wins(res) == IF res = "won" THEN total_wins + 1 ELSE total_wins

\* self.total_earnings += (final_balance - self.balance), self.balance being
\* the value the caller left in it
fold_total_earnings(self_balance, res, fb) ==
    IF res = "won" THEN total_earnings + (fb - self_balance) ELSE total_earnings

\* mutant of fold_total_losses: the loss is counted whatever the result
fold_total_losses_always(res) == total_losses + 1

fold_total_losses(res) == IF res = "won" THEN total_losses ELSE total_losses + 1

\* mutant of fold_balance: the bet is taken off once more
fold_balance_deducting(res, fb) == fb - bet_amount

fold_balance(res, fb) == fb

\* Lines 255-266 of end_screen(result, final_balance), called while
\* self.balance holds self_balance; the screen's event loop follows.
end_screen(self_balance, res, fb) ==
    /\ high_score' = fold_high_score(fb)
    /\ leaderboard' = fold_leaderboard(fb)
    /\ leaderboard_file' = _save_leaderboard(leaderboard')
    /\ total_games' = total_games + 1
    /\ total_wins' = fold_total_wins(res)
    /\ total_earnings' = fold_total_earnings(self_balance, res, fb)
    /\ total_losses' = fold_total_losses(res)
    /\ balance' = fold_balance(res, fb)
    /\ stats' = stats_record(balance', high_score', total_games', total_wins',
                             total_losses', total_earnings', promocode_used)
    /\ stats_file' = json_dump(stats')
    /\ result' = res
    /\ final_balance' = fb
    /\ inserts' = inserts + 1
    /\ pc' = "end"
    /\ UNCHANGED <<promocode_used, difficulty, grid_size_index>>

\* ------------------------------------------------------------ game_loop
cell_size == GRID_SIZE \div grid_size

\* lines 323-333: the board, the bet deduction, the running totals
start_balance(bet) == balance - bet

start_max_earnings(g, m, bet) == (g * g - m) * bet * 2

\* sample is what random.sample(all_positions, num_mines) returned
GameLoopStart(sample) ==
    /\ pc = "start"
    /\ sample \subseteq AllCells(grid_size)
    /\ Cardinality(sample) = num_mines
    /\ mine_positions' = sample
    /\ revealed' = {}
    /\ game_over' = FALSE
    /\ balance' = start_balance(bet_amount)
    /\ earnings' = 0
    /\ multiplier' = 10
    /\ max_earnings' = start_max_earnings(grid_size, num_mines, bet_amount)
    /\ games_before' = total_games
    /\ inserts' = 0
    /\ last_event' = no_event
    /\ pc' = "game"
    /\ UNCHANGED <<high_score, total_games, total_wins, total_losses,
                   total_earnings, promocode_used, leaderboard, difficulty,
                   grid_size_index, stats, stats_file, leaderboard_file,
                   menu_locals,
                   grid_size, num_mines, bet_amount, end_args, shown_scores,
                   balance_before>>

_check_game_won(g, rev, mines) ==
    \A cell \in AllCells(g) : cell \in rev \/ cell \in mines

\* what a click at pixel (mx, my) is aimed at
TargetOf(mx, my) ==
    LET row == my \div cell_size
        col == mx \div cell_size
    IN  IF mx >= GRID_SIZE THEN "sidebar"
        ELSE IF <<row, col>> \notin AllCells(grid_size) THEN "outside"
        ELSE IF <<row, col>> \in revealed THEN "revealed"
        ELSE IF <<row, col>> \in mine_positions THEN "mine"
        ELSE "safe"

\* the pixels clicked: each cell's corner, the last pixel of the board area
\* and the first pixel of the sidebar
ClickXs == { c * cell_size : c \in 0 .. grid_size - 1 } \cup {GRID_SIZE - 1, GRID_SIZE}
ClickYs == { r * cell_size : r \in 0 .. grid_size - 1 } \cup {WINDOW_HEIGHT - 1}

\* mutant of reveal_guard: a revealed cell can be revealed again
reveal_guard_no_revealed_check(mx, row, col) ==
    /\ mx < GRID_SIZE
    /\ 0 <= row /\ row < grid_size
    /\ 0 <= col /\ col < grid_size

\* lines 354-356: the click reveals a cell
reveal_guard(mx, row, col) ==
    /\ mx < GRID_SIZE
    /\ 0 <= row /\ row < grid_size
    /\ 0 <= col /\ col < grid_size
    /\ <<row, col>> \notin revealed

\* mutant of mine_hit_revealed: only the clicked cell is shown
mine_hit_revealed_clicked_only(row, col) == revealed \cup {<<row, col>>}

\* lines 357, 363-365: the cells shown after a mine is hit
mine_hit_revealed(row, col) == AllCells(grid_size)

\* line 371: the final balance handed to end_screen on a loss
lost_final_balance == balance + earnings

\* lines 374-375
safe_reveal_multiplier(mult) == mult + 1

\* mutant of safe_reveal_earnings: the multiplier is applied to the bet plus
\* the earnings so far
safe_reveal_earnings_compounding(e, bet, mult, maxe) ==
    Min(((e + bet) * mult) \div 10, maxe)

\* mutant of safe_reveal_earnings: no clamp
safe_reveal_earnings_unclamped(e, bet, mult, maxe) == e + (bet * mult) \div 10

safe_reveal_earnings(e, bet, mult, maxe) == Min(e + (bet * mult) \div 10, maxe)

\* K_c while not game_over (lines 345-351)
GameKeyC ==
    /\ pc = "game"
    /\ ~game_over
    /\ end_screen(balance + earnings, "won", balance + earnings)
    /\ last_event' = [kind |-> "key_c", target |-> "none"]
    /\ UNCHANGED <<menu_locals, game_locals, shown_scores, balance_before,
                   games_before>>

\* MOUSEBUTTONDOWN at (mx, my) while not game_over (lines 352-375)
GameMouseButtonDown(mx, my) ==
    /\ pc = "game"
    /\ ~game_over
    /\ last_event' = [kind |-> "click", target |-> TargetOf(mx, my)]
    /\ LET row == my \div cell_size
           col == mx \div cell_size
       IN  IF reveal_guard(mx, row, col)
           THEN IF <<row, col>> \in mine_positions
                THEN /\ revealed' = mine_hit_revealed(row, col)
                     /\ game_over' = TRUE
                     /\ end_screen(balance, "lost", lost_final_balance)
                     /\ UNCHANGED <<earnings, multiplier>>
                ELSE /\ revealed' = revealed \cup {<<row, col>>}
                     /\ multiplier' = safe_reveal_multiplier(multiplier)
                     /\ earnings' = safe_reveal_earnings(earnings, bet_amount,
                                                         multiplier', max_earnings)
                     /\ UNCHANGED <<pc, profile, game_over, end_args, inserts>>
           ELSE UNCHANGED <<pc, profile, revealed, game_over, earnings,
                            multiplier, end_args, inserts>>
    /\ UNCHANGED <<menu_locals, grid_size, num_mines, bet_amount,
                   mine_positions, max_earnings, shown_scores, balance_before,
                   games_before>>

\* the end of an event batch: the win check of lines 377-382
GameFrameEnd ==
    /\ pc = "game"
    /\ last_event' = [kind |-> "frame", target |-> "none"]
    /\ IF _check_game_won(grid_size, revealed, mine_positions) /\ ~game_over
       THEN end_screen(balance + earnings, "won", balance + earnings)
       ELSE UNCHANGED <<pc, profile, end_args, inserts>>
    /\ UNCHANGED <<menu_locals, game_locals, shown_scores, balance_before,
                   games_before>>

\* ------------------------------------------------------------ end screen keys
\* game_loop's locals once it has returned
ResetGameLocals ==
    /\ grid_size' = 0
    /\ num_mines' = 0
    /\ bet_amount' = 0
    /\ mine_positions' = {}
    /\ revealed' = {}
    /\ game_over' = FALSE
    /\ earnings' = 0
    /\ multiplier' = 10
    /\ max_earnings' = 0
    /\ result' = "none"
    /\ final_balance' = 0
    /\ shown_scores' = <<>>
    /\ last_event' = no_event
    /\ balance_before' = 0
    /\ games_before' = 0
    /\ inserts' = 0

\* mutant of replay_target: game_loop goes on after end_screen returns
replay_target_game == "game"

\* where K_r leads: end_screen returns True, game_loop returns, main() opens
\* the menu again
replay_target == "menu"

\* K_r: replay
EndKeyR ==
    /\ pc = "end"
    /\ pc' = replay_target
    /\ current_index' = 0
    /\ error_message' = ""
    /\ success_message' = ""
    /\ input_fields' = empty_input_fields
    /\ IF pc' = "menu" THEN ResetGameLocals
       ELSE UNCHANGED <<game_locals, end_args, shown_scores, history>>
    /\ UNCHANGED profile

\* mutant of end_other_event_balance: K_c cashes out once more
end_other_event_balance_cashing(kind) ==
    IF kind = "key_c" THEN balance + earnings ELSE balance

\* lines 288-296 and 314-318: the end screen handles QUIT, K_q, K_r and K_l,
\* the leaderboard view QUIT and K_b; any other event is dropped
end_other_event_balance(kind) == balance

\* K_c or MOUSEBUTTONDOWN on the end screen or the leaderboard view
EndOtherEvent(kind) ==
    /\ pc \in {"end", "leaderboard"}
    /\ balance' = end_other_event_balance(kind)
    /\ last_event' = [kind |-> kind, target |-> "none"]
    /\ UNCHANGED <<pc, high_score, total_games, total_wins, total_losses,
                   total_earnings, promocode_used, leaderboard, difficulty,
                   grid_size_index, stats, stats_file, leaderboard_file,
                   menu_locals, game_locals, end_args, shown_scores,
                   balance_before, games_before, inserts>>

\* the rows _show_leaderboard renders, and the deque it leaves
shown_rows(lb) == sorted_desc(lb)

leaderboard_after_show(lb) == lb

\* K_l: the leaderboard view
EndKeyL ==
    /\ pc = "end"
    /\ pc' = "leaderboard"
    /\ shown_scores' = shown_rows(leaderboard)
    /\ leaderboard' = leaderboard_after_show(leaderboard)
    /\ UNCHANGED <<balance, high_score, total_games, total_wins, total_losses,
                   total_earnings, promocode_used, difficulty, grid_size_index,
                   stats, stats_file, leaderboard_file, menu_locals,
                   game_locals, end_args,
                   history>>

\* K_b: back to the end screen
LeaderboardKeyB ==
    /\ pc = "leaderboard"
    /\ pc' = "end"
    /\ shown_scores' = <<>>
    /\ UNCHANGED <<profile, menu_locals, game_locals, end_args, history>>

\* quit_game: pygame.QUIT in any loop, or K_q on the end screen
QuitGame ==
    /\ pc \in {"menu", "game", "end", "leaderboard"}
    /\ leaderboard_file' = _save_leaderboard(leaderboard)
    /\ stats' = stats_record(balance, high_score, total_games, total_wins,
                             total_losses, total_earnings, promocode_used)
    /\ stats_file' = json_dump(stats')
    /\ pc' = "quit"
    /\ current_index' = 0
    /\ error_message' = ""
    /\ success_message' = ""
    /\ input_fields' = empty_input_fields
    /\ ResetGameLocals
    /\ UNCHANGED <<balance, high_score, total_games, total_wins, total_losses,
                   total_earnings, promocode_used, leaderboard, difficulty,
                   grid_size_index>>

\* ------------------------------------------------------------ specification
\* the samples drawn when game_loop starts
StartSamples ==
    IF pc = "start" THEN MinePlacements(grid_size, num_mines) ELSE {}

\* the accepted configs whose sessions are explored
ExploredStart ==
    /\ total_games < MaxGames
    /\ grid_size' * grid_size' - num_mines' <= MaxSafe

Next ==
    \/ MenuKeyTab
    \/ MenuKeyG
    \/ MenuKeyD
    \/ \E pf \in PromoFields, now \in PromoTimes : MenuKeyP(pf, now)
    \/ \E mf \in MineFields, bf \in BetFields :
          MenuKeyReturn(mf, bf) /\ (pc' = "start" => ExploredStart)
    \/ \E sample \in StartSamples : GameLoopStart(sample)
    \/ GameKeyC
    \/ \E mx \in ClickXs, my \in ClickYs : GameMouseButtonDown(mx, my)
    \/ GameFrameEnd
    \/ EndKeyR
    \/ EndKeyL
    \/ LeaderboardKeyB
    \/ \E kind \in {"key_c", "click"} : EndOtherEvent(kind)
    \/ QuitGame

Spec == Init /\ [][Next]_vars

\* ------------------------------------------------------------ sweep
\* SweepSpec plays single sessions on the real board sizes, where a board has
\* 20 safe cells and more and the max_earnings clamp takes effect.  To keep
\* this finite it follows one of the program's runs per config: the mines
\* drawn are the last cells in row-major order and the player clicks the
\* cells in row-major order (and may cash out at any point).
SweepMineFields == { <<"1">>, <<"2">>, <<"5">> }
SweepBetFields == { <<"1", "0">> }

CellIndex(cell) == cell[1] * grid_size + cell[2]

SweepMines(g, m) == { cell \in AllCells(g) : cell[1] * g + cell[2] >= g * g - m }

SweepNextCell ==
    CHOOSE cell \in AllCells(grid_size) \ revealed :
        \A other \in AllCells(grid_size) \ revealed :
            CellIndex(cell) <= CellIndex(other)

SweepClick ==
    /\ pc = "game"
    /\ AllCells(grid_size) \ revealed # {}
    /\ GameMouseButtonDown(SweepNextCell[2] * cell_size,
                           SweepNextCell[1] * cell_size)

SweepNext ==
    \/ MenuKeyTab /\ current_index = 0
    \/ MenuKeyG
    \/ \E mf \in SweepMineFields, bf \in SweepBetFields :
          MenuKeyReturn(mf, bf) /\ total_games = 0
    \/ GameLoopStart(SweepMines(grid_size, num_mines))
    \/ SweepClick
    \/ GameFrameEnd
    \/ GameKeyC

SweepSpec == Init /\ [][SweepNext]_vars

\* ------------------------------------------------------------ engine
\* EngineSpec calls game_loop(grid_size, num_mines, bet_amount) on its own,
\* with arguments that no menu has checked, on the default profile.  The
\* mines drawn are the last cells in row-major order and the cells are
\* clicked in row-major order, as in SweepSpec.
EngineGrids == {4}
EngineMines == {-1, 0, 1, 15, 16, 17}
EngineBets == {-1000, 0, 1000, 200000}

EngineInit ==
    /\ pc = "start"
    /\ grid_size \in EngineGrids
    /\ num_mines \in EngineMines
    /\ bet_amount \in EngineBets
    /\ stats = default_stats
    /\ stats_file = no_stats_file
    /\ balance = stats.balance
    /\ high_score = stats.high_score
    /\ total_games = stats.total_games
    /\ total_wins = stats.total_wins
    /\ total_losses = stats.total_losses
    /\ total_earnings = stats.total_earnings
    /\ promocode_used = stats.promocode_used
    /\ leaderboard_file = <<>>
    /\ leaderboard = <<>>
    /\ difficulty = "Medium"
    /\ grid_size_index = 0
    /\ current_index = 0
    /\ error_message = ""
    /\ success_message = ""
    /\ input_fields = empty_input_fields
    /\ mine_positions = {}
    /\ revealed = {}
    /\ game_over = FALSE
    /\ earnings = 0
    /\ multiplier = 10
    /\ max_earnings = 0
    /\ result = "none"
    /\ final_balance = 0
    /\ shown_scores = <<>>
    /\ last_event = no_event
    /\ balance_before = balance
    /\ games_before = 0
    /\ inserts = 0

\* line 328: random.sample raises ValueError when the sample is larger than
\* the population or negative; nothing catches it
GameLoopSampleError ==
    /\ pc = "start"
    /\ num_mines < 0 \/ num_mines > grid_size * grid_size
    /\ pc' = "crashed"
    /\ UNCHANGED <<profile, menu_locals, game_locals, end_args, shown_scores,
                   history>>

EngineSamples ==
    IF pc = "start" /\ 0 <= num_mines /\ num_mines <= grid_size * grid_size
    THEN {SweepMines(grid_size, num_mines)}
    ELSE {}

EngineNext ==
    \/ \E sample \in EngineSamples : GameLoopStart(sample)
    \/ GameLoopSampleError
    \/ SweepClick
    \/ GameKeyC
    \/ GameFrameEnd

EngineSpec == EngineInit /\ [][EngineNext]_vars

\* ------------------------------------------------------------ launch
\* LaunchSpec starts before the program does, with whatever a previous run
\* or anything else left in the two files, and lets the program be started
\* again after it quit.  Its sessions are played on one board, 5x5 with one
\* safe cell, and the program is quit between sessions only.
InitStatsFiles ==
    { no_stats_file,
      [kind |-> "unreadable", keys |-> {}, data |-> default_stats],
      [kind |-> "invalid_json", keys |-> {}, data |-> default_stats],
      [kind |-> "invalid_utf8", keys |-> {}, data |-> default_stats],
      [kind |-> "json_array", keys |-> {}, data |-> default_stats],
      [kind |-> "json_object", keys |-> {}, data |-> default_stats] }

LaunchLeaderboardFiles ==
    { <<>>, <<99900, 99800, 99700, 99600, 99500>> }

LaunchMineFields == { <<"2", "4">> }
LaunchBetFields == { <<"1", "0">> }

LaunchInit ==
    /\ pc = "off"
    /\ stats_file \in InitStatsFiles
    /\ leaderboard_file \in LaunchLeaderboardFiles
    /\ stats = default_stats
    /\ balance = 0
    /\ high_score = 0
    /\ total_games = 0
    /\ total_wins = 0
    /\ total_losses = 0
    /\ total_earnings = 0
    /\ promocode_used = FALSE
    /\ leaderboard = <<>>
    /\ difficulty = "Medium"
    /\ grid_size_index = 1
    /\ current_index = 0
    /\ error_message = ""
    /\ success_message = ""
    /\ input_fields = empty_input_fields
    /\ grid_size = 0
    /\ num_mines = 0
    /\ bet_amount = 0
    /\ mine_positions = {}
    /\ revealed = {}
    /\ game_over = FALSE
    /\ earnings = 0
    /\ multiplier = 10
    /\ max_earnings = 0
    /\ result = "none"
    /\ final_balance = 0
    /\ shown_scores = <<>>
    /\ last_event = no_event
    /\ balance_before = 0
    /\ games_before = 0
    /\ inserts = 0

\* main(): MineGemGame() (lines 57-73), then the start menu.  An exception
\* that _load_stats lets through, or that self.stats.get raises on a value
\* that is no dict, ends the program.
Launch ==
    /\ pc \in {"off", "quit"}
    /\ LET loaded == _load_stats(stats_file)
       IN  IF loaded.raised # "" \/ ~loaded.is_dict
           THEN /\ pc' = "crashed"
                /\ UNCHANGED <<balance, high_score, total_games, total_wins,
                               total_losses, total_earnings, promocode_used,
                               leaderboard, stats>>
           ELSE /\ pc' = "menu"
                /\ balance' = stats_get(loaded, "balance", DefaultBalance)
                /\ high_score' = stats_get(loaded, "high_score", 0)
                /\ total_games' = stats_get(loaded, "total_games", 0)
                /\ total_wins' = stats_get(loaded, "total_wins", 0)
                /\ total_losses' = stats_get(loaded, "total_losses", 0)
                /\ total_earnings' = stats_get(loaded, "total_earnings", 0)
                /\ promocode_used' = stats_get(loaded, "promocode_used", FALSE)
                /\ leaderboard' = _load_leaderboard(leaderboard_file)
                /\ stats' = stats_record(balance', high_score', total_games',
                                         total_wins', total_losses',
                                         total_earnings', promocode_used')
    /\ difficulty' = "Medium"
    /\ grid_size_index' = 1
    /\ UNCHANGED <<stats_file, leaderboard_file, menu_locals, game_locals,
                   end_args, shown_scores, history>>

LaunchNext ==
    \/ Launch
    \/ MenuKeyTab /\ current_index = 0
    \/ \E mf \in LaunchMineFields, bf \in LaunchBetFields :
          MenuKeyReturn(mf, bf) /\ (pc' = "start" => ExploredStart)
    \/ \E sample \in StartSamples : GameLoopStart(sample)
    \/ GameKeyC
    \/ \E mx \in ClickXs, my \in ClickYs : GameMouseButtonDown(mx, my)
    \/ GameFrameEnd
    \/ EndKeyR
    \/ QuitGame /\ pc # "game"

LaunchSpec == LaunchInit /\ [][LaunchNext]_vars

\* ------------------------------------------------------------ menu
\* MenuSpec follows the setup menu alone, up to the config it returns, with
\* every config accepted whatever the size of its board.
MenuMineFields ==
    { <<>>, <<"0">>, <<"1">>, <<"3">>, <<"1", "6">>, <<"3", "1">>,
      <<"6", "4">>, <<"²">> }
MenuBetFields ==
    { <<>>, <<"0">>, <<"²">>, <<"1", "0">>, <<"1", "2", "0", "0">>,
      <<"1", "0", "0", "1">>, <<"1", "²">> }

MenuNext ==
    \/ MenuKeyTab
    \/ MenuKeyG
    \/ MenuKeyD
    \/ \E pf \in PromoFields, now \in PromoTimes : MenuKeyP(pf, now)
    \/ \E mf \in MenuMineFields, bf \in MenuBetFields : MenuKeyReturn(mf, bf)

MenuSpec == Init /\ [][MenuNext]_vars

\* ------------------------------------------------------------ stakes
\* StakesSpec plays on the default board (5 x 5, Medium) with the bets at the
\* edge of the balance: the whole balance before and after the promo bonus,
\* a little less than it, and more than it.
StakesBetFields ==
    { <<"1", "0", "0", "0">>, <<"1", "5", "0", "0">>,
      <<"9", "9", "9">>, <<"2", "0", "0", "0">> }
StakesMineFields == { <<"2", "4">>, <<"2", "5">> }

StakesNext ==
    \/ MenuKeyTab
    \/ \E pf \in PromoFields, now \in PromoTimes : MenuKeyP(pf, now)
    \/ \E mf \in StakesMineFields, bf \in StakesBetFields :
          MenuKeyReturn(mf, bf) /\ (pc' = "start" => ExploredStart)
    \/ \E sample \in StartSamples : GameLoopStart(sample)
    \/ GameKeyC
    \/ \E mx \in ClickXs, my \in ClickYs : GameMouseButtonDown(mx, my)
    \/ GameFrameEnd
    \/ EndKeyR
    \/ QuitGame

StakesSpec == Init /\ [][StakesNext]_vars

\* ------------------------------------------------------------ typing
\* TypingSpec follows the keys pressed in the setup menu, with the text of
\* the Promocode field as state.  A KEYDOWN event is named by the character
\* it types (event.unicode); a letter key types either case, and event.key
\* is the key of that letter.
Letters == {"a", "A", "d", "D", "g", "G", "m", "M", "p", "P", "s", "S", "x"}

isdigit(unicode) == unicode \in Digits \cup {"²"}
isalnum(unicode) == isdigit(unicode) \/ unicode \in Letters

\* str.lower(), on the letters the Promocode field is asked about
LowerChar(c) ==
    CASE c = "A" -> "a" [] c = "P" -> "p" [] c = "M" -> "m" [] OTHER -> c

lower(s) == [i \in 1 .. Len(s) |-> LowerChar(s[i])]

\* line 244: what the Promocode field takes
promocode_accepts(unicode) ==
    \/ isdigit(unicode)
    \/ unicode \in {":", " "}
    \/ LowerChar(unicode) \in {"a", "p", "m"}

\* lines 178-238: the branches of the elif chain that come before the
\* typing branch and take the key of a character
taken_before_typing(unicode) ==
    \/ unicode \in {"g", "G"} /\ selected = "Grid Size"
    \/ unicode \in {"d", "D"}
    \/ unicode \in {"s", "S"}
    \/ unicode \in {"p", "P"} /\ selected = "Promocode"

\* lines 242-250: a character key no earlier branch took.  Text typed into
\* a number field is not followed.
MenuKeyText(unicode) ==
    /\ pc = "menu"
    /\ ~taken_before_typing(unicode)
    /\ isalnum(unicode) \/ unicode \in {":", " "}
    /\ selected # "Grid Size"
    /\ input_fields' =
          IF selected = "Promocode" /\ promocode_accepts(unicode)
          THEN [input_fields EXCEPT !.Promocode = Append(@, unicode)]
          ELSE input_fields
    /\ error_message' = ""
    /\ success_message' = ""
    /\ UNCHANGED <<pc, profile, current_index, game_locals, end_args,
                   shown_scores, history>>

\* lines 239-241: K_BACKSPACE
MenuKeyBackspace ==
    /\ pc = "menu"
    /\ selected # "Grid Size"
    /\ input_fields' =
          IF selected = "Promocode"
          THEN [input_fields EXCEPT !.Promocode = SubSeq(@, 1, Len(@) - 1)]
          ELSE input_fields
    /\ error_message' = ""
    /\ success_message' = ""
    /\ UNCHANGED <<pc, profile, current_index, game_locals, end_args,
                   shown_scores, history>>

\* the clock readings: 12:30 AM, 9:05 AM, 12:00 PM, 3:45 PM
TypingTimes == { <<0, 30>>, <<9, 5>>, <<12, 0>>, <<15, 45>> }

\* K_p while "Promocode" is selected: the claim reads the field
MenuKeyPTyped == \E now \in TypingTimes : MenuKeyP(input_fields.Promocode, now)

\* the KEYDOWN event of the key that types unicode, letters apart from
\* d, g and s
KeyDown(unicode) ==
    IF unicode \in {"p", "P"} /\ selected = "Promocode"
    THEN MenuKeyPTyped
    ELSE MenuKeyText(unicode)

\* the keys pressed
TypingKeys ==
    { "0", "1", "2", "3", "4", "5", "9", ":", " ", "a", "A", "m", "M", "p",
      "P", "x", "²", "." }

\* the texts the Promocode field is followed up to: the time strings of the
\* clock readings, in capitals, in small letters, and between spaces
TypingTexts ==
    UNION { { current_time(now), lower(current_time(now)),
              <<" ">> \o current_time(now) \o <<" ">> } : now \in TypingTimes }

ExploredText ==
    \E text \in TypingTexts :
        \E k \in 0 .. Len(text) : input_fields'.Promocode = SubSeq(text, 1, k)

TypingNext ==
    \/ MenuKeyTab
    \/ \E unicode \in TypingKeys : MenuKeyText(unicode) /\ ExploredText
    \/ MenuKeyBackspace
    \/ MenuKeyPTyped

TypingSpec == Init /\ [][TypingNext]_vars

\* ------------------------------------------------------------ properties
InSession == pc \in {"game", "end", "leaderboard"}
Concluded == pc \in {"end", "leaderboard"}

\* the session's phase
Phase ==
    IF pc = "game" THEN "Playing"
    ELSE IF Concluded THEN (IF result = "lost" THEN "Lost" ELSE "Won")
    ELSE "None"

SafeCount == grid_size * grid_size - num_mines

\* C1: when a reveal hits a mine, the final balance handed to the fold is the
\* balance right after the bet deduction (pre-session balance minus the bet),
\* with no earnings added.
C1_LossForfeitsEarnings ==
    (Concluded /\ result = "lost") => final_balance = balance_before - bet_amount

\* C2: revealing a mine cell while Playing, after any number of safe reveals,
\* makes every cell of the board revealed and sets the phase to Lost.
C2_MineRevealsAllAndLoses ==
    [][(pc = "game" /\ last_event'.kind = "click" /\ last_event'.target = "mine")
         => (revealed' = AllCells(grid_size) /\ Phase' = "Lost")]_vars

C2_Witness ==
    /\ pc = "end"
    /\ last_event = [kind |-> "click", target |-> "mine"]
    /\ multiplier = 11
    /\ revealed = AllCells(grid_size)
    /\ result = "lost"

\* C3: once every non-mine cell is revealed, the session concludes as Won;
\* no later command, also one in the same event batch, makes it Lost.
C3_ClearedBoardEndsWon ==
    [][(pc = "game" /\ _check_game_won(grid_size, revealed, mine_positions)
          /\ pc' = "end")
         => result' = "won"]_vars

\* C4: in every state of a session earnings <= max_earnings, and
\* max_earnings stays (grid_size^2 - mine_count) * bet_amount * 2.
C4_EarningsWithinMax ==
    InSession => (/\ earnings <= max_earnings
                  /\ max_earnings = SafeCount * bet_amount * 2)

\* the running sum bet * (1.1 + ... + multiplier), in paise, with no clamp
UnclampedSum ==
    LET k == multiplier - 10
    IN  (bet_amount * (10 * k + (k * (k + 1)) \div 2)) \div 10

C4_Witness ==
    /\ pc = "game"
    /\ earnings = max_earnings
    /\ UnclampedSum > max_earnings

\* C5: a click aimed at an already-revealed cell, or outside the grid, changes
\* neither multiplier, earnings, the revealed set, the phase nor the balance.
C5_DeadClickIsNoOp ==
    [][(pc = "game" /\ last_event'.kind = "click"
          /\ last_event'.target \in {"revealed", "outside", "sidebar"})
         => (/\ UNCHANGED <<multiplier, earnings, revealed, balance, game_over>>
             /\ Phase' = Phase)]_vars

C5_Witness ==
    /\ pc = "game"
    /\ last_event = [kind |-> "click", target |-> "revealed"]
    /\ multiplier = 11
    /\ Cardinality(revealed) = 1

\* C6: the bet is deducted from balance exactly once, at session start and
\* before any reveal or cash-out; no other step lowers the balance.
C6_BetDeductedOnce ==
    /\ [](pc = "game" => balance = balance_before - bet_amount)
    /\ [][balance' < balance
            => (pc = "start" /\ pc' = "game"
                /\ balance' = balance - bet_amount)]_vars

C6_Witness ==
    /\ pc = "end"
    /\ result = "won"
    /\ multiplier = 12
    /\ bet_amount > 0
    /\ balance = balance_before - bet_amount + earnings

\* C7: when a session concludes as Won, the fold adds final_balance minus the
\* pre-session balance to total_earnings and 1 to total_wins and total_games.
C7_WonFoldAddsNetGain ==
    [][(pc = "game" /\ pc' = "end" /\ result' = "won")
         => (/\ total_earnings' = total_earnings + (final_balance' - balance_before)
             /\ total_wins' = total_wins + 1
             /\ total_games' = total_games + 1)]_vars

\* C8: the fold with outcome Lost and final balance B sets balance = B, adds 1
\* to total_losses and total_games, and leaves total_wins, total_earnings and
\* promocode_used unchanged.
C8_LostFold ==
    [][(pc = "game" /\ pc' = "end" /\ result' = "lost")
         => (/\ balance' = final_balance'
             /\ total_losses' = total_losses + 1
             /\ total_games' = total_games + 1
             /\ UNCHANGED <<total_wins, total_earnings, promocode_used>>)]_vars

C8_Witness ==
    /\ pc = "end"
    /\ result = "lost"
    /\ total_losses = 2
    /\ total_games = 2
    /\ balance = final_balance

\* C9: the fold is applied exactly once per concluded session: total_games
\* has grown by 1 and one value was inserted into the leaderboard, and none
\* before the session concluded.
C9_FoldOncePerSession ==
    /\ Concluded => (total_games = games_before + 1 /\ inserts = 1)
    /\ pc = "game" => (total_games = games_before /\ inserts = 0)

C9_Witness ==
    /\ pc = "leaderboard"
    /\ total_games = 2
    /\ games_before = 1
    /\ inserts = 1

\* C10: the leaderboard never holds more than 5 values; an insertion into a
\* full one evicts the value inserted earliest; the sorted view leaves it as
\* it was.
C10_LeaderboardBounded ==
    /\ [](Len(leaderboard) <= 5)
    /\ [][(pc = "game" /\ pc' = "end" /\ Len(leaderboard) = 5)
            => leaderboard' = Append(Tail(leaderboard), final_balance')]_vars
    /\ [][(pc = "end" /\ pc' = "leaderboard")
            => (leaderboard' = leaderboard
                /\ Len(shown_scores') = Len(leaderboard)
                /\ \A i \in 1 .. Len(shown_scores') - 1 :
                     shown_scores'[i] >= shown_scores'[i + 1])]_vars

C10_Witness ==
    /\ pc = "leaderboard"
    /\ total_games = 1
    /\ Len(leaderboard) = 5
    /\ SubSeq(leaderboard, 1, 4) = <<100200, 100100, 100000, 99900>>
    /\ leaderboard[5] = final_balance

\* the current time as a 12-hour "H:MM AM/PM" string, no leading zero on the
\* hour
TimeCode(now) ==
    LET hour == IF now[1] % 12 = 0 THEN 12 ELSE now[1] % 12
        hh == IF hour >= 10 THEN <<"1", DigitChar(hour - 10)>>
              ELSE <<DigitChar(hour)>>
    IN  hh \o <<":", DigitChar(now[2] \div 10), DigitChar(now[2] % 10), " ">>
           \o (IF now[1] >= 12 THEN <<"P", "M">> ELSE <<"A", "M">>)

\* the entered code matches the time: equal up to letter case and blanks
\* around it
CodeMatches(code, now) ==
    LET Fold(c) == IF c \in {"a", "A"} THEN "A"
                   ELSE IF c \in {"p", "P"} THEN "P"
                   ELSE IF c \in {"m", "M"} THEN "M" ELSE c
        first == CHOOSE i \in 1 .. Len(code) + 1 :
                    /\ \A j \in 1 .. i - 1 : code[j] = " "
                    /\ i <= Len(code) => code[i] # " "
        last == CHOOSE i \in 0 .. Len(code) :
                    /\ \A j \in i + 1 .. Len(code) : code[j] = " "
                    /\ i >= 1 => code[i] # " "
        want == TimeCode(now)
    IN  /\ last - first + 1 = Len(want)
        /\ \A i \in 1 .. Len(want) : Fold(code[first + i - 1]) = want[i]

\* C11: over any sequence of promo claim attempts, the first attempt whose
\* code matches the current time while promocode_used is false adds 500 to
\* balance and sets promocode_used; a non-matching attempt is rejected as
\* InvalidCode and an attempt after a success as AlreadyUsed (also with a
\* matching code), both leaving balance, promocode_used and stats as they
\* were; promocode_used changes on no other step.
C11_PromoClaimedOnce ==
    /\ [][\A code \in PromoFields, now \in PromoTimes :
            MenuKeyP(code, now) =>
              IF promocode_used
              THEN /\ error_message' = "Promocode already used!"
                   /\ UNCHANGED <<balance, promocode_used, stats>>
              ELSE IF CodeMatches(code, now)
              THEN /\ balance' = balance + 50000
                   /\ promocode_used' = TRUE
                   /\ error_message' = ""
              ELSE /\ error_message' = "Invalid promocode!"
                   /\ UNCHANGED <<balance, promocode_used, stats>>]_vars
    /\ [][promocode_used' # promocode_used
            => (/\ pc = "menu" /\ pc' = "menu"
                /\ ~promocode_used
                /\ balance' = balance + 50000)]_vars

C11_Witness ==
    /\ pc = "menu"
    /\ total_games = 0
    /\ promocode_used
    /\ balance = 150000
    /\ stats.promocode_used
    /\ error_message = "Promocode already used!"

\* the rejection reasons, as the menu words them
InvalidInput == "Invalid input! Use numbers only."
BetExceedsBalance == "Bet exceeds balance!"
TooManyMines == "Too many mines for grid size!"
NonPositiveValue == "Bet and mines must be positive!"

\* a text that reads as a whole number, and one that reads as a decimal
IsWholeNumber(text) ==
    text # <<>> /\ \A i \in 1 .. Len(text) : text[i] \in Digits

IsDecimal(text) ==
    /\ \A i \in 1 .. Len(text) : text[i] \in Digits \cup {"."}
    /\ Cardinality({i \in 1 .. Len(text) : text[i] = "."}) <= 1
    /\ \E i \in 1 .. Len(text) : text[i] \in Digits

\* the first failing rule for the contents mf and bf, "" if there is none
FirstFailingRule(mf, bf) ==
    LET grid == GRID_OPTIONS[grid_size_index + 1]
        mine_count == scaled_mines(int_of(mf).val, difficulty)
        bet == float_of(bf).val
    IN  IF ~IsWholeNumber(mf) \/ ~IsDecimal(bf) THEN InvalidInput
        ELSE IF bet > balance THEN BetExceedsBalance
        ELSE IF mine_count >= grid * grid THEN TooManyMines
        ELSE IF bet <= 0 \/ mine_count <= 0 THEN NonPositiveValue
        ELSE ""

\* RETURN on a number field with contents mf and bf: a valid config, or the
\* first failing rule's reason with nothing else changed
SubmissionFollowsRules(mf, bf) ==
    (MenuKeyReturn(mf, bf) /\ selected \in {"Number of Mines", "Bet Amount"})
      => IF FirstFailingRule(mf, bf) = ""
         THEN /\ pc' = "start"
              /\ grid_size' = GRID_OPTIONS[grid_size_index + 1]
              /\ bet_amount' = float_of(bf).val
              /\ 0 < num_mines' /\ num_mines' < grid_size' * grid_size'
              /\ 0 < bet_amount' /\ bet_amount' <= balance
              /\ UNCHANGED profile
         ELSE /\ error_message' = FirstFailingRule(mf, bf)
              /\ pc' = "menu"
              /\ UNCHANGED <<profile, game_locals>>

\* C12: for every pair of raw field contents, config submission yields either
\* a valid config or the reason of the first failing rule, in the order
\* InvalidInput, BetExceedsBalance, TooManyMines, NonPositiveValue; a rejected
\* submission leaves balance, stats and leaderboard unchanged and starts no
\* session.
C12_FirstFailingRuleWins ==
    [][\A mf \in MenuMineFields, bf \in MenuBetFields :
          SubmissionFollowsRules(mf, bf)]_vars

\* C12 as amended: the same for every pair of non-empty contents; with an
\* empty number field RETURN reports no reason, moves to the next field,
\* starts no session and changes nothing else.
C12_FirstFailingRuleWinsNonEmpty ==
    [][\A mf \in MenuMineFields, bf \in MenuBetFields :
          IF mf # <<>> /\ bf # <<>>
          THEN SubmissionFollowsRules(mf, bf)
          ELSE (MenuKeyReturn(mf, bf)
                  /\ selected \in {"Number of Mines", "Bet Amount"})
                 => (/\ pc' = "menu"
                     /\ error_message' = ""
                     /\ current_index' = next_index
                     /\ UNCHANGED <<profile, game_locals>>)]_vars

\* a submission refused for its bet (1200.00 against the balance 1000.00)
C12_Witness ==
    /\ pc = "menu"
    /\ error_message = BetExceedsBalance
    /\ balance = DefaultBalance
    /\ ~promocode_used
    /\ selected = "Bet Amount"

\* n times the difficulty multiplier rounded to the nearest integer: where
\* the product lies halfway, both the upper neighbour and the even one
RoundedMines(n, diff) ==
    LET tenths == n * difficulties[diff]
        floor == tenths \div 10
        rest == tenths % 10
    IN  IF rest < 5 THEN {floor}
        ELSE IF rest > 5 THEN {floor + 1}
        ELSE {floor + 1, IF floor % 2 = 0 THEN floor ELSE floor + 1}

\* C13: the session's mine_count is the entered mine count times the
\* difficulty multiplier rounded to the nearest integer, and the bound checks
\* are made on the rounded value.
C13_MineCountRounded ==
    [][\A mf \in MenuMineFields, bf \in MenuBetFields :
          (/\ MenuKeyReturn(mf, bf)
           /\ pc' = "start"
           /\ IsWholeNumber(mf) /\ IsDecimal(bf))
            => (/\ num_mines' \in RoundedMines(int_of(mf).val, difficulty)
                /\ 0 < num_mines' /\ num_mines' < grid_size' * grid_size')]_vars

ValidConfig ==
    /\ 0 < num_mines /\ num_mines < grid_size * grid_size
    /\ 0 < bet_amount

\* C14: every config the menu accepts has 0 < mine_count < grid_size^2 and
\* 0 < bet_amount <= balance; the mine placement of its session is a set of
\* exactly mine_count in-bounds cells and stays the same for the whole
\* session.
C14_AcceptedConfigAndPlacement ==
    /\ [](pc = "start" => (ValidConfig /\ bet_amount <= balance))
    /\ [](InSession => (/\ ValidConfig
                        /\ bet_amount <= balance_before
                        /\ mine_positions \subseteq AllCells(grid_size)
                        /\ Cardinality(mine_positions) = num_mines))
    /\ [][(InSession /\ InSession')
            => UNCHANGED <<mine_positions, grid_size, num_mines,
                           bet_amount>>]_vars

C14_Witness ==
    /\ pc = "end"
    /\ grid_size = 5
    /\ num_mines = 24
    /\ bet_amount = 1000
    /\ Cardinality(mine_positions) = 24
    /\ <<4, 4>> \notin mine_positions
    /\ <<4, 4>> \in revealed
    /\ result = "won"

\* C15: loading the stats profile never crashes; when the stats file is
\* missing, unreadable or malformed, the profile starts with the defaults
\* (balance 1000, high_score 0, all totals 0, promocode_used false).
C15_LoadStatsNeverCrashes ==
    [][(pc \in {"off", "quit"} /\ pc' # pc)
         => (/\ pc' = "menu"
             /\ (stats_file.kind # "json_object")
                  => (balance' = 100000 /\ high_score' = 0
                      /\ total_games' = 0 /\ total_wins' = 0
                      /\ total_losses' = 0 /\ total_earnings' = 0
                      /\ promocode_used' = FALSE))]_vars

\* C16: game_loop re-validates its config: started with mine_count <= 0,
\* mine_count >= grid_size^2, bet_amount <= 0 or bet_amount > balance, it
\* refuses before the balance is changed, and the session does not enter
\* Playing.
C16_EngineRejectsInvalidConfig ==
    [][(pc = "start" /\ ~(ValidConfig /\ bet_amount <= balance))
         => (pc' # "game" /\ balance' = balance)]_vars

\* C17: Lost and Won are absorbing: once a session is Lost or Won, no reveal
\* or cash-out (and no other step that stays with the session) changes its
\* revealed set, earnings, multiplier or phase, nor the balance or the stats;
\* the phase of a session only moves from Playing to Lost or to Won.
C17_TerminalPhasesAbsorbing ==
    /\ [][(Concluded /\ Concluded')
            => UNCHANGED <<revealed, earnings, multiplier, game_over, result,
                           final_balance, balance, high_score, total_games,
                           total_wins, total_losses, total_earnings,
                           promocode_used, leaderboard, stats, stats_file>>]_vars
    /\ [][Phase' # Phase
            => \/ Phase = "Playing" /\ Phase' \in {"Lost", "Won"}
               \/ Phase = "None"
               \/ Phase' = "None"]_vars

C17_Witness ==
    /\ pc = "end"
    /\ result = "won"
    /\ earnings > 0
    /\ last_event = [kind |-> "key_c", target |-> "none"]
    /\ balance = final_balance

\* e := min(e + bet * (1.0 + 0.1 * i), maxe) applied for i = 1..k to e = 0
RECURSIVE EarningsAfter(_, _, _)
EarningsAfter(k, bet, maxe) ==
    IF k = 0 THEN 0
    ELSE Min(EarningsAfter(k - 1, bet, maxe) + (bet * (10 + k)) \div 10, maxe)

\* C18: after exactly k distinct safe cells have been revealed in a Playing
\* session, multiplier = 1.0 + 0.1 * k and earnings is the k-fold recurrence
\* e := min(e + bet_amount * (1.0 + 0.1 * i), max_earnings) from e = 0,
\* whichever safe cells were revealed and in whatever order.
C18_MultiplierAndEarningsByCount ==
    pc = "game"
      => LET k == Cardinality(revealed)
         IN  /\ revealed \cap mine_positions = {}
             /\ multiplier = 10 + k
             /\ earnings = EarningsAfter(k, bet_amount,
                                         SafeCount * bet_amount * 2)

C18_Witness ==
    /\ pc = "game"
    /\ Cardinality(revealed) = 2
    /\ bet_amount = 1000
    /\ multiplier = 12
    /\ earnings = 2300

\* C19: the leaderboard's recency order survives persistence: the
\* leaderboard loaded when the program is started again holds the values in
\* the insertion order it had when it was saved, so that the next insertion
\* into a full leaderboard still evicts the value inserted earliest.
C19_RecencyOrderSurvivesReload ==
    [][(pc = "quit" /\ pc' = "menu")
         => (/\ leaderboard' = leaderboard
             /\ Len(leaderboard) = 5
                  => deque_append(leaderboard', 0) = deque_append(leaderboard, 0))]_vars

\* C20: starting from the default profile, total_games = total_wins +
\* total_losses in every reachable state, over any sequence of sessions (won
\* by cash-out, won by clearing the board, lost), promo claims and rejected
\* config submissions.
C20_GamesAreWinsPlusLosses ==
    /\ total_games = total_wins + total_losses
    /\ stats.total_games = stats.total_wins + stats.total_losses

C20_Witness ==
    /\ pc = "menu"
    /\ total_games = 2
    /\ total_wins = 1
    /\ total_losses = 1
    /\ promocode_used
    /\ error_message = TooManyMines

\* C21: starting from the default profile, the balance is never negative:
\* not in the menu, not in a session right after the bet was deducted, not
\* after the fold, whatever configs are submitted, sessions played and promo
\* codes claimed.
C21_BalanceNeverNegative == balance >= 0

C21_Witness ==
    /\ pc = "game"
    /\ promocode_used
    /\ bet_amount = DefaultBalance + PromoBonus
    /\ balance_before = bet_amount
    /\ balance = 0
    /\ revealed # {}

\* C22: in the setup menu, while promocode_used is false, the matching time
\* string can be entered and claimed whatever the clock reads: with the
\* Promocode field selected and holding the first characters of the time
\* string, the key of its next character adds that character to the field,
\* so the keys of the string pressed one after another fill the field with
\* it; and P pressed on the field holding the string claims the bonus.
C22_MatchingCodeCanBeTypedAndClaimed ==
    [][\A now \in TypingTimes :
          LET code == current_time(now)
              text == input_fields.Promocode
          IN  /\ \A k \in 1 .. Len(code) :
                    ( /\ selected = "Promocode"
                      /\ promo_unused
                      /\ text = SubSeq(code, 1, k - 1)
                      /\ KeyDown(code[k]) )
                    => input_fields'.Promocode = SubSeq(code, 1, k)
              /\ ( /\ promo_unused
                   /\ text = code
                   /\ MenuKeyP(text, now) )
                 => /\ promocode_used'
                    /\ balance' = balance + PromoBonus]_vars

====
